---- MODULE Spec2Model ----
(***************************************************************************)
(* Agent trust subsystem of chitin-social: agent identities, their paired  *)
(* user records, agent tokens, and the HTTP request handlers that read and *)
(* write them; the content routes behind the owner aggregate limiter; and  *)
(* the top feed with its cursor.  Every request is a process; each awaited *)
(* database query of a handler is one atomic step, so handlers of          *)
(* concurrent requests interleave at their awaits exactly as they do on    *)
(* the Node event loop.                                                    *)
(***************************************************************************)
EXTENDS Integers, FiniteSets, Sequences, Bags, TLC

\* ------------------------------------------------------------------ bounds
\* total number of requests received in one behaviour
MaxRequests == 3
\* the same, when the requests are sent one after the other
MaxSeqRequests == 4
\* the clock runs over 0..MaxTime (unit: one hour)
MaxTime == 1
\* number of agent_tokens rows
MaxTokens == 2
\* number of posts rows the feed is read from
MaxPosts == 3
\* largest page size a feed reader asks for
MaxLimit == 2

\* ------------------------------------------------------- program constants
MAX_AGENTS_PER_USER == 5
\* lifetime of an agent token, in hours
TOKEN_TTL == 1
\* lifetime of a human session token, in hours (7 days)
SESSION_TTL == 168

NULL == "NULL"
NoTime == -1
NoJti == 0

\* ------------------------------------------------------------- identifiers
Humans == {"h1", "h2"}
\* agent ids as they are spelled in request bodies and URLs; "h2" is a
\* handle that collides with the id of an existing user
AgentIdInputs == {"a1", "A1", "a2", "a5", "A5", "a6", "h2"}
\* post and reply ids as they are spelled in request paths and bodies: the
\* ids of rows that exist when the behaviour starts or are created in it,
\* and ids that no row has
IdInputs == {1, 2, 3}
\* agents already registered (by h1, each with its paired user) before the
\* behaviour starts: four sequential successful POST /agents/register
RegisteredAtStart == {"a1", "a2", "a3", "a4"}

\* the name an agent is registered with, and the name PATCH changes it to
InitialName == "n0"
UpdatedName == "n1"

toLowerCase(s) ==
  CASE s = "A1" -> "a1"
    [] s = "A5" -> "a5"
    [] OTHER -> s

\* the request processes: two clients whose requests overlap
Slots == {"r1", "r2"}

VARIABLES
  agent_identities,  \* table: set of rows, primary key id
  users,             \* table: set of rows, primary key id
  agent_tokens,      \* table: set of rows, jti unique
  now,               \* wall clock, shared by Date.now() and SQL NOW()
  credentials,       \* agent credentials that were returned to a caller
  req,               \* the requests in flight, per request process
  resp,              \* the request answered last, with its response
  started,           \* number of requests received so far
  posts,             \* table: bag of rows (the columns the queries read)
  replies,           \* table: bag of rows
  votes,             \* table: bag of rows
  hits,              \* in-memory counters of the per-action rate limiters
  pager              \* a client reading the feed page after page

vars == <<agent_identities, users, agent_tokens, now, credentials, req, resp, started,
          posts, replies, votes, hits, pager>>

\* the content tables and what serves them
content == <<posts, replies, votes, hits, pager>>

\* the per-action limiters have counted nothing: the state of their memory
\* store when the server starts and when a window ends
NoHits == [k \in {} |-> 0]

\* nobody is reading the feed
NoPager == [sort |-> NULL, limit |-> 0, cursor |-> NULL, items |-> <<>>, hasMore |-> TRUE,
            pages |-> 0]

\* ------------------------------------------------------------ credentials
NoCred == [id |-> NULL, user_type |-> NULL, jti |-> NoJti, exp |-> NoTime, sig |-> "none"]
\* a bearer token that jwt.verify rejects (wrong signature)
BadCred == [id |-> "h1", user_type |-> "human", jti |-> NoJti, exp |-> SESSION_TTL, sig |-> "bad"]

\* session token of a human (verify-magic-link / signup), issued at time 0
SessionCred(h) == [id |-> h, user_type |-> "human", jti |-> NoJti, exp |-> SESSION_TTL, sig |-> "ok"]

generateAuthToken(id, userType, jti, expiresIn) ==
  [id |-> id, user_type |-> userType, jti |-> jti, exp |-> now + expiresIn, sig |-> "ok"]

\* jwt.verify: "invalid" (throws JsonWebTokenError), "expired" (throws
\* TokenExpiredError) or "ok"
jwtVerify(cred) ==
  IF cred.sig # "ok" THEN "invalid"
  ELSE IF now >= cred.exp THEN "expired"
  ELSE "ok"

NoUser == [id |-> NULL, user_type |-> NULL]
DecodedUser(cred) == [id |-> cred.id, user_type |-> cred.user_type]

\* ------------------------------------------------------------ AgentRepo
\* Every query answers with result.rows, the set of rows it matched.
findById(id) ==
  {row \in agent_identities : row.id = toLowerCase(id) /\ row.deleted_at = NoTime}

\* mutant: the count forgets "deleted_at IS NULL"
countByOwner_CountsDeleted(ownerId) ==
  Cardinality({row \in agent_identities : row.owner_id = toLowerCase(ownerId)})

countByOwner(ownerId) ==
  Cardinality({row \in agent_identities :
      row.owner_id = toLowerCase(ownerId) /\ row.deleted_at = NoTime})

\* INSERT INTO agent_identities: the primary key on id makes it raise when a
\* row with this id exists, soft-deleted or not
createRaises(id) == \E row \in agent_identities : row.id = toLowerCase(id)

create(id, ownerId, name) ==
  agent_identities \cup
    {[id |-> toLowerCase(id), owner_id |-> toLowerCase(ownerId), name |-> name,
      deleted_at |-> NoTime]}

\* mutant: the UPDATE forgets "deleted_at IS NULL"
update_AlsoDeleted(id, name) ==
  {IF row.id = toLowerCase(id) THEN [row EXCEPT !.name = name] ELSE row
     : row \in agent_identities}

\* UPDATE agent_identities SET name = ... WHERE id = $n AND deleted_at IS NULL
update(id, name) ==
  {IF row.id = toLowerCase(id) /\ row.deleted_at = NoTime
     THEN [row EXCEPT !.name = name] ELSE row : row \in agent_identities}

softDelete(id) ==
  {IF row.id = toLowerCase(id) /\ row.deleted_at = NoTime
     THEN [row EXCEPT !.deleted_at = now] ELSE row : row \in agent_identities}

\* mutant: the INSERT is lost
createToken_NotRecorded(agentId, jti, expiresAt) == agent_tokens

createToken(agentId, jti, expiresAt) ==
  agent_tokens \cup {[agent_id |-> toLowerCase(agentId), jti |-> jti,
                      expires_at |-> expiresAt, revoked_at |-> NoTime]}

\* mutant: the query forgets "revoked_at IS NULL"
isTokenValid_IgnoresRevocation(jti) ==
  \E row \in agent_tokens : row.jti = jti /\ row.expires_at > now

\* mutant: the query compares with "expires_at >= NOW()"
isTokenValid_ExpiryInclusive(jti) ==
  \E row \in agent_tokens :
      row.jti = jti /\ row.revoked_at = NoTime /\ row.expires_at >= now

isTokenValid(jti) ==
  \E row \in agent_tokens :
      row.jti = jti /\ row.revoked_at = NoTime /\ row.expires_at > now

\* mutant: the UPDATE forgets "revoked_at IS NULL"
revokeAllMatches_AlsoRevoked(agentId) ==
  {row \in agent_tokens : row.agent_id = toLowerCase(agentId)}

\* the rows the UPDATE of revokeAllTokens matches (result.rowCount of them)
revokeAllMatches(agentId) ==
  {row \in agent_tokens : row.agent_id = toLowerCase(agentId) /\ row.revoked_at = NoTime}

revokeAllTokens(agentId) ==
  {IF row \in revokeAllMatches(agentId) THEN [row EXCEPT !.revoked_at = now] ELSE row
     : row \in agent_tokens}

\* uuidv4(): a jti that no row has
uuidv4 == Cardinality(agent_tokens) + 1

\* ------------------------------------------------------------- UserRepo
UserRepo_findById(id) ==
  {row \in users : row.id = toLowerCase(id) /\ row.deleted_at = NoTime}

\* a user row with this id exists: create answers {success: false}
UserRepo_createFails(id) == \E row \in users : row.id = toLowerCase(id)

UserRepo_create(id, userType) ==
  users \cup {[id |-> toLowerCase(id), user_type |-> userType, deleted_at |-> NoTime]}

UserRepo_softDelete(id) ==
  {IF row.id = toLowerCase(id) /\ row.deleted_at = NoTime
     THEN [row EXCEPT !.deleted_at = now] ELSE row : row \in users}

\* ------------------------------------------------------------- requests
Ops == {"register", "update", "delete", "issueToken", "revokeAll", "me", "getAgent",
        "post", "reply", "vote", "getPost", "deletePost"}

\* POST /posts, POST /posts/:id/replies and POST /votes
ContentOps == {"post", "reply", "vote"}

\* routes mounted behind authenticateToken
Protected(op) == op \notin {"getAgent", "getPost"}

\* routes with a post id in the path or a target id in the body
HasTarget(op) == op \in {"reply", "vote", "getPost", "deletePost"}

\* routes with an :agentId parameter or an id in the body
HasAgentId(op) ==
  op \in {"register", "update", "delete", "issueToken", "revokeAll", "getAgent"}

\* first awaited call of each route handler
HandlerEntry(op) ==
  CASE op = "register"   -> "reg_count"
    [] op = "update"     -> "upd_find"
    [] op = "delete"     -> "del_find"
    [] op = "issueToken" -> "tok_find"
    [] op = "revokeAll"  -> "rev_find"
    [] op = "me"         -> "me_find"
    [] op = "getAgent"   -> "get_find"
    [] op \in ContentOps -> "agg_find"
    [] op = "getPost"    -> "post_get"
    [] op = "deletePost" -> "post_del_find"

\* the awaited calls of each route, any one of which may raise
Calls(op) ==
  CASE op = "register"   -> {"auth", "reg_count", "reg_find", "reg_create", "reg_user", "reg_cleanup"}
    [] op = "update"     -> {"auth", "upd_find", "upd_apply"}
    [] op = "delete"     -> {"auth", "del_find", "del_agent", "del_user", "del_tokens"}
    [] op = "issueToken" -> {"auth", "tok_find", "tok_create"}
    [] op = "revokeAll"  -> {"auth", "rev_find", "rev_tokens"}
    [] op = "me"         -> {"auth", "me_find"}
    [] op = "getAgent"   -> {"get_find"}
    [] op = "post"       -> {"auth", "agg_find", "agg_count", "create", "enqueue"}
    [] op = "reply"      -> {"auth", "agg_find", "agg_count", "target", "parent", "create",
                             "reply_path", "enqueue"}
    [] op = "vote"       -> {"auth", "agg_find", "agg_count", "target", "create"}
    [] op = "getPost"    -> {"post_get"}
    [] op = "deletePost" -> {"auth", "post_del_find", "post_del"}

\* no post or reply id: the parent_reply_id of a top-level reply, a request
\* that names no target
NoId == 0

\* a request: its inputs (op, cred, agentId, target: the post id of the path
\* or the target id of the body, parent: parent_reply_id, and fault: the call
\* that will raise, if any), its position pc, req.user, the handler's locals
\* (created: the id of the post or reply it created, enqueue: what became
\* of the analysis job) and the response
Idle == [op |-> NULL, pc |-> "idle", cred |-> NoCred, agentId |-> NULL, fault |-> "none",
         user |-> NoUser, checked |-> FALSE, agentCount |-> -1, status |-> 0, count |-> -1,
         owner |-> NULL, aggregate |-> "none", counted |-> <<>>,
         target |-> NoId, parent |-> NoId, created |-> NoId, enqueue |-> "none"]

InFlight(r) == req[r].pc # "idle"

\* the call the request is waiting on raises
Raises(q) == q.fault = q.pc

\* res.status(code).json(...)
Respond(q, code) == [q EXCEPT !.pc = "done", !.status = code]

\* the request of process r moves on to q; an answered request frees r
Step(r, q) ==
  IF q.pc = "done"
    THEN req' = [req EXCEPT ![r] = Idle] /\ resp' = q
    ELSE req' = [req EXCEPT ![r] = q] /\ UNCHANGED resp

\* the bearer tokens a client can present
Presentable == {NoCred, BadCred} \cup {SessionCred(h) : h \in Humans} \cup credentials

\* optionalAuth, mounted on the whole app: sets req.user from any token that
\* verifies and never answers itself
optionalAuth(cred) ==
  IF cred.sig # "none" /\ jwtVerify(cred) = "ok" THEN DecodedUser(cred) ELSE NoUser

\* combinedRateLimiter, mounted on the whole app behind optionalAuth: a
\* limiter per principal ("per-user-type limits").  It counts the request of
\* the principal optionalAuth identified; its limits are taken as not reached.
combinedRateLimiter(q) == [q EXCEPT !.counted = Append(@, "combinedRateLimiter")]

\* A request arrives and runs through the app-level optionalAuth and
\* combinedRateLimiter.  The request processes are interchangeable, so the
\* request takes a fixed free one.  Each specification names the routes its
\* clients use (ops) and selects the requests they send.
Receive(r, max, ops) ==
  /\ ~InFlight(r)
  /\ r = CHOOSE p \in Slots : ~InFlight(p)
  /\ started < max
  /\ \E op \in ops, cred \in Presentable :
     \E aid \in (IF HasAgentId(op) THEN AgentIdInputs ELSE {NULL}) :
     \E target \in (IF HasTarget(op) THEN IdInputs ELSE {NoId}) :
     \E parent \in (IF op = "reply" THEN IdInputs \cup {NoId} ELSE {NoId}) :
     \E fault \in {"none"} \cup Calls(op) :
       LET q == combinedRateLimiter(
                  [Idle EXCEPT !.op = op, !.cred = cred, !.agentId = aid, !.fault = fault,
                               !.target = target, !.parent = parent,
                               !.user = optionalAuth(cred),
                               !.pc = IF Protected(op) THEN "auth" ELSE HandlerEntry(op)])
       IN
       /\ fault = "auth" => cred.jti # NoJti
       /\ op = "issueToken" =>
            Cardinality(agent_tokens) +
              Cardinality({p \in Slots : req[p].op = "issueToken"}) < MaxTokens
       /\ req' = [req EXCEPT ![r] = q]
  /\ started' = started + 1
  /\ UNCHANGED <<agent_identities, users, agent_tokens, now, credentials, resp, content>>

\* mutant: an error of the validity lookup is swallowed and the request goes on
authenticateToken_FailOpen(q) ==
  IF q.cred.sig = "none" THEN Respond(q, 401)
  ELSE IF jwtVerify(q.cred) = "expired" THEN Respond(q, 401)
  ELSE IF jwtVerify(q.cred) = "invalid" THEN Respond(q, 403)
  ELSE IF q.cred.jti # NoJti /\ ~Raises(q) /\ ~isTokenValid(q.cred.jti) THEN Respond(q, 401)
  ELSE [q EXCEPT !.user = DecodedUser(q.cred),
                 !.checked = (q.cred.jti # NoJti),
                 !.pc = HandlerEntry(q.op)]

\* authenticateToken
authenticateToken(q) ==
  IF q.cred.sig = "none" THEN Respond(q, 401)
  ELSE IF jwtVerify(q.cred) = "expired" THEN Respond(q, 401)
  ELSE IF jwtVerify(q.cred) = "invalid" THEN Respond(q, 403)
  ELSE IF q.cred.jti # NoJti /\ Raises(q) THEN Respond(q, 403)
  ELSE IF q.cred.jti # NoJti /\ ~isTokenValid(q.cred.jti) THEN Respond(q, 401)
  ELSE [q EXCEPT !.user = DecodedUser(q.cred),
                 !.checked = (q.cred.jti # NoJti),
                 !.pc = HandlerEntry(q.op)]

AuthenticateToken(r) ==
  /\ req[r].pc = "auth"
  /\ Step(r, authenticateToken(req[r]))
  /\ UNCHANGED <<agent_identities, users, agent_tokens, now, credentials, started, content>>

\* --------------------------------------------------- POST /agents/register
\* mutant: the "only humans" check is missing
RegCount_AnyPrincipal(r) ==
  /\ req[r].pc = "reg_count"
  /\ LET q == req[r] IN
     Step(r,
       IF Raises(q) THEN Respond(q, 500)
       ELSE IF countByOwner(q.user.id) >= MAX_AGENTS_PER_USER
         THEN Respond([q EXCEPT !.agentCount = countByOwner(q.user.id)], 400)
       ELSE [q EXCEPT !.agentCount = countByOwner(q.user.id), !.pc = "reg_find"])
  /\ UNCHANGED <<agent_identities, users, agent_tokens, now, credentials, started, content>>

RegCount(r) ==
  /\ req[r].pc = "reg_count"
  /\ LET q == req[r] IN
     Step(r,
       IF q.user.user_type # "human" THEN Respond(q, 403)
       ELSE IF Raises(q) THEN Respond(q, 500)
       ELSE IF countByOwner(q.user.id) >= MAX_AGENTS_PER_USER
         THEN Respond([q EXCEPT !.agentCount = countByOwner(q.user.id)], 400)
       ELSE [q EXCEPT !.agentCount = countByOwner(q.user.id), !.pc = "reg_find"])
  /\ UNCHANGED <<agent_identities, users, agent_tokens, now, credentials, started, content>>

RegFind(r) ==
  /\ req[r].pc = "reg_find"
  /\ LET q == req[r] IN
     Step(r,
       IF Raises(q) THEN Respond(q, 500)
       ELSE IF findById(q.agentId) # {} THEN Respond(q, 400)
       ELSE [q EXCEPT !.pc = "reg_create"])
  /\ UNCHANGED <<agent_identities, users, agent_tokens, now, credentials, started, content>>

RegCreate(r) ==
  /\ req[r].pc = "reg_create"
  /\ LET q == req[r] IN
     IF Raises(q) \/ createRaises(q.agentId)
       THEN /\ Step(r, Respond(q, 500))
            /\ UNCHANGED agent_identities
       ELSE /\ agent_identities' = create(q.agentId, q.user.id, InitialName)
            /\ Step(r, [q EXCEPT !.pc = "reg_user"])
  /\ UNCHANGED <<users, agent_tokens, now, credentials, started, content>>

RegUser(r) ==
  /\ req[r].pc = "reg_user"
  /\ LET q == req[r] IN
     IF Raises(q)
       THEN /\ Step(r, Respond(q, 500))
            /\ UNCHANGED users
       ELSE IF UserRepo_createFails(q.agentId)
       THEN /\ Step(r, [q EXCEPT !.pc = "reg_cleanup"])
            /\ UNCHANGED users
       ELSE /\ users' = UserRepo_create(q.agentId, "agent")
            /\ Step(r, Respond(q, 201))
  /\ UNCHANGED <<agent_identities, agent_tokens, now, credentials, started, content>>

RegCleanup(r) ==
  /\ req[r].pc = "reg_cleanup"
  /\ LET q == req[r] IN
     /\ agent_identities' = IF Raises(q) THEN agent_identities ELSE softDelete(q.agentId)
     /\ Step(r, Respond(q, 500))
  /\ UNCHANGED <<users, agent_tokens, now, credentials, started, content>>

\* --------------------------------------------------------- owner-only routes
\* mutant: the ownership check is missing
OwnerCheck_NoOwnership(q, nextPc) ==
  IF Raises(q) THEN Respond(q, 500)
  ELSE IF findById(q.agentId) = {} THEN Respond(q, 404)
  ELSE [q EXCEPT !.pc = nextPc]

\* findById and the ownership check shared by delete, token and revoke-tokens
OwnerCheck(q, nextPc) ==
  IF Raises(q) THEN Respond(q, 500)
  ELSE IF findById(q.agentId) = {} THEN Respond(q, 404)
  ELSE IF \E agent \in findById(q.agentId) : agent.owner_id # q.user.id
    THEN Respond(q, 403)
  ELSE [q EXCEPT !.pc = nextPc]

\* -------------------------------------------------- PATCH /agents/:agentId
UpdFind(r) ==
  /\ req[r].pc = "upd_find"
  /\ Step(r, OwnerCheck(req[r], "upd_apply"))
  /\ UNCHANGED <<agent_identities, users, agent_tokens, now, credentials, started, content>>

\* AgentRepo.update answers the updated row, or null when it matched none
UpdApply(r) ==
  /\ req[r].pc = "upd_apply"
  /\ LET q == req[r] IN
     IF Raises(q)
       THEN Step(r, Respond(q, 500)) /\ UNCHANGED agent_identities
       ELSE /\ agent_identities' = update(q.agentId, UpdatedName)
            /\ Step(r, IF findById(q.agentId) = {} THEN Respond(q, 500) ELSE Respond(q, 200))
  /\ UNCHANGED <<users, agent_tokens, now, credentials, started, content>>

\* ------------------------------------------------- DELETE /agents/:agentId
DelFind(r) ==
  /\ req[r].pc = "del_find"
  /\ Step(r, OwnerCheck(req[r], "del_agent"))
  /\ UNCHANGED <<agent_identities, users, agent_tokens, now, credentials, started, content>>

DelAgent(r) ==
  /\ req[r].pc = "del_agent"
  /\ LET q == req[r] IN
     IF Raises(q)
       THEN Step(r, Respond(q, 500)) /\ UNCHANGED agent_identities
       ELSE /\ agent_identities' = softDelete(q.agentId)
            /\ Step(r, [q EXCEPT !.pc = "del_user"])
  /\ UNCHANGED <<users, agent_tokens, now, credentials, started, content>>

DelUser(r) ==
  /\ req[r].pc = "del_user"
  /\ LET q == req[r] IN
     IF Raises(q)
       THEN Step(r, Respond(q, 500)) /\ UNCHANGED users
       ELSE /\ users' = UserRepo_softDelete(q.agentId)
            /\ Step(r, [q EXCEPT !.pc = "del_tokens"])
  /\ UNCHANGED <<agent_identities, agent_tokens, now, credentials, started, content>>

DelTokens(r) ==
  /\ req[r].pc = "del_tokens"
  /\ LET q == req[r] IN
     IF Raises(q)
       THEN Step(r, Respond(q, 500)) /\ UNCHANGED agent_tokens
       ELSE /\ agent_tokens' = revokeAllTokens(q.agentId)
            /\ Step(r, Respond(q, 200))
  /\ UNCHANGED <<agent_identities, users, now, credentials, started, content>>

\* -------------------------------------------- POST /agents/:agentId/token
TokFind(r) ==
  /\ req[r].pc = "tok_find"
  /\ Step(r, OwnerCheck(req[r], "tok_create"))
  /\ UNCHANGED <<agent_identities, users, agent_tokens, now, credentials, started, content>>

TokCreate(r) ==
  /\ req[r].pc = "tok_create"
  /\ LET q == req[r] IN
     IF Raises(q)
       THEN Step(r, Respond(q, 500)) /\ UNCHANGED <<agent_tokens, credentials>>
       ELSE LET jti == uuidv4 IN
            /\ agent_tokens' = createToken(q.agentId, jti, now + TOKEN_TTL)
            /\ credentials' = credentials \cup
                 {generateAuthToken(q.agentId, "agent", jti, TOKEN_TTL)}
            /\ Step(r, Respond(q, 201))
  /\ UNCHANGED <<agent_identities, users, now, started, content>>

\* ------------------------------------ POST /agents/:agentId/revoke-tokens
RevFind(r) ==
  /\ req[r].pc = "rev_find"
  /\ Step(r, OwnerCheck(req[r], "rev_tokens"))
  /\ UNCHANGED <<agent_identities, users, agent_tokens, now, credentials, started, content>>

RevTokens(r) ==
  /\ req[r].pc = "rev_tokens"
  /\ LET q == req[r] IN
     IF Raises(q)
       THEN Step(r, Respond(q, 500)) /\ UNCHANGED agent_tokens
       ELSE /\ agent_tokens' = revokeAllTokens(q.agentId)
            /\ Step(r, Respond([q EXCEPT
                 !.count = Cardinality(revokeAllMatches(q.agentId))], 200))
  /\ UNCHANGED <<agent_identities, users, now, credentials, started, content>>

\* ------------------------------------------------------------ GET /auth/me
\* The handler has no try/catch: when the query raises, no answer is sent
\* (status stays 0).
MeFind(r) ==
  /\ req[r].pc = "me_find"
  /\ LET q == req[r] IN
     Step(r,
       IF Raises(q) THEN [q EXCEPT !.pc = "done"]
       ELSE IF UserRepo_findById(q.user.id) = {} THEN Respond(q, 404)
       ELSE Respond(q, 200))
  /\ UNCHANGED <<agent_identities, users, agent_tokens, now, credentials, started, content>>

\* ---------------------------------------------------- GET /agents/:agentId
GetFind(r) ==
  /\ req[r].pc = "get_find"
  /\ LET q == req[r] IN
     Step(r,
       IF Raises(q) THEN Respond(q, 500)
       ELSE IF findById(q.agentId) = {} THEN Respond(q, 404)
       ELSE Respond(q, 200))
  /\ UNCHANGED <<agent_identities, users, agent_tokens, now, credentials, started, content>>

\* ------------------------------------------------ owner aggregate limiter
AGGREGATE_LIMITS(action) ==
  CASE action = "posts"   -> 100
    [] action = "replies" -> 500
    [] action = "votes"   -> 1500

\* the trailing window, in hours
WINDOW_MS == 1

\* the table each content route writes, under the name the limiters know it by
ActionOf(op) ==
  CASE op = "post"  -> "posts"
    [] op = "reply" -> "replies"
    [] op = "vote"  -> "votes"

\* WITH owner_agents AS (... WHERE owner_id = $1 AND deleted_at IS NULL)
owner_agents(ownerId) ==
  {row.id : row \in {i \in agent_identities :
                        i.owner_id = toLowerCase(ownerId) /\ i.deleted_at = NoTime}}

\* SELECT COUNT(*) over the rows of a table that are in matching
CountRows(table, matching) == BagCardinality([row \in matching |-> table[row]])

\* AgentRepo.getOwnerActivityCounts
getOwnerActivityCounts(ownerId, windowStart) ==
  [posts   |-> CountRows(posts, {row \in DOMAIN posts :
                 row.author_id \in owner_agents(ownerId) /\ row.created_at > windowStart}),
   replies |-> CountRows(replies, {row \in DOMAIN replies :
                 row.author_id \in owner_agents(ownerId) /\ row.created_at > windowStart}),
   votes   |-> CountRows(votes, {row \in DOMAIN votes :
                 row.user_id \in owner_agents(ownerId) /\ row.created_at > windowStart})]

\* ---------------------------------------------------- per-action limiters
\* postLimiter, replyLimiter, voteLimiter: requests per hour and principal
ACTION_LIMITS(userType, action) ==
  CASE action = "posts"   -> IF userType = "agent" THEN 30 ELSE 10
    [] action = "replies" -> IF userType = "agent" THEN 200 ELSE 60
    [] action = "votes"   -> IF userType = "agent" THEN 500 ELSE 300

Hits(key) == IF key \in DOMAIN hits THEN hits[key] ELSE 0

\* the limiter of the route counts the request of q's principal ...
actionLimiterHits(q) ==
  LET key == <<ActionOf(q.op), q.user.id>> IN
  [k \in DOMAIN hits \cup {key} |-> IF k = key THEN Hits(k) + 1 ELSE hits[k]]

\* ... and answers 429 once the count has passed the limit; a request it
\* lets through is at the handler's first awaited call
actionLimiter(q) ==
  LET key == <<ActionOf(q.op), q.user.id>>
      q1  == [q EXCEPT !.counted = Append(@, "actionLimiter")]
  IN IF Hits(key) + 1 > ACTION_LIMITS(q.user.user_type, ActionOf(q.op))
       THEN Respond(q1, 429)
       ELSE [q1 EXCEPT !.pc = IF q.op = "post" THEN "create" ELSE "target"]

\* the aggregate limiter calls next(): the per-action limiter runs
AggregateNext(r, q, outcome) ==
  LET q1 == [q EXCEPT !.aggregate = outcome,
                      !.counted = Append(@, "ownerAggregate")]
  IN /\ hits' = actionLimiterHits(q1)
     /\ Step(r, actionLimiter(q1))

\* mutant: the limiter looks up the counts of every principal
AggFind_HumansToo(r) ==
  /\ req[r].pc = "agg_find"
  /\ LET q == req[r] IN
     IF Raises(q)
       THEN AggregateNext(r, q, "failed_open")
     ELSE IF findById(q.user.id) = {}
       THEN Step(r, Respond(q, 401)) /\ UNCHANGED hits
     ELSE /\ Step(r, [q EXCEPT !.owner = (CHOOSE row \in findById(q.user.id) : TRUE).owner_id,
                               !.pc = "agg_count"])
          /\ UNCHANGED hits
  /\ UNCHANGED <<agent_identities, users, agent_tokens, now, credentials, started,
                 posts, replies, votes, pager>>

\* mutant: an agent without identity is passed on like a human
AggFind_OrphanPasses(r) ==
  /\ req[r].pc = "agg_find"
  /\ LET q == req[r] IN
     IF q.user.user_type # "agent" \/ findById(q.user.id) = {}
       THEN AggregateNext(r, q, "exempt")
     ELSE IF Raises(q)
       THEN AggregateNext(r, q, "failed_open")
     ELSE /\ Step(r, [q EXCEPT !.owner = (CHOOSE row \in findById(q.user.id) : TRUE).owner_id,
                               !.pc = "agg_count"])
          /\ UNCHANGED hits
  /\ UNCHANGED <<agent_identities, users, agent_tokens, now, credentials, started,
                 posts, replies, votes, pager>>

\* createOwnerAggregateLimiter, up to its first query: a principal that is
\* not an agent is passed on at once; for an agent, AgentRepo.findById
AggFind(r) ==
  /\ req[r].pc = "agg_find"
  /\ LET q == req[r] IN
     IF q.user.user_type # "agent"
       THEN AggregateNext(r, q, "exempt")
     ELSE IF Raises(q)
       THEN AggregateNext(r, q, "failed_open")
     ELSE IF findById(q.user.id) = {}
       THEN Step(r, Respond(q, 401)) /\ UNCHANGED hits
     ELSE /\ Step(r, [q EXCEPT !.owner = (CHOOSE row \in findById(q.user.id) : TRUE).owner_id,
                               !.pc = "agg_count"])
          /\ UNCHANGED hits
  /\ UNCHANGED <<agent_identities, users, agent_tokens, now, credentials, started,
                 posts, replies, votes, pager>>

\* mutant: an error of the count query is answered 500
AggCount_FailClosed(r) ==
  /\ req[r].pc = "agg_count"
  /\ LET q       == req[r]
         current == getOwnerActivityCounts(q.owner, now - WINDOW_MS)[ActionOf(q.op)]
     IN
     IF Raises(q)
       THEN Step(r, Respond(q, 500)) /\ UNCHANGED hits
     ELSE IF current >= AGGREGATE_LIMITS(ActionOf(q.op))
       THEN Step(r, Respond([q EXCEPT !.count = current, !.aggregate = "rejected"], 429))
            /\ UNCHANGED hits
     ELSE AggregateNext(r, [q EXCEPT !.count = current], "passed")
  /\ UNCHANGED <<agent_identities, users, agent_tokens, now, credentials, started,
                 posts, replies, votes, pager>>

\* mutant: the limiter rejects only above the ceiling plus one
AggCount_Lenient(r) ==
  /\ req[r].pc = "agg_count"
  /\ LET q       == req[r]
         current == getOwnerActivityCounts(q.owner, now - WINDOW_MS)[ActionOf(q.op)]
     IN
     IF Raises(q)
       THEN AggregateNext(r, q, "failed_open")
     ELSE IF current > AGGREGATE_LIMITS(ActionOf(q.op)) + 1
       THEN Step(r, Respond([q EXCEPT !.count = current, !.aggregate = "rejected"], 429))
            /\ UNCHANGED hits
     ELSE AggregateNext(r, [q EXCEPT !.count = current], "passed")
  /\ UNCHANGED <<agent_identities, users, agent_tokens, now, credentials, started,
                 posts, replies, votes, pager>>

\* createOwnerAggregateLimiter, the count query and the comparison
AggCount(r) ==
  /\ req[r].pc = "agg_count"
  /\ LET q       == req[r]
         current == getOwnerActivityCounts(q.owner, now - WINDOW_MS)[ActionOf(q.op)]
     IN
     IF Raises(q)
       THEN AggregateNext(r, q, "failed_open")
     ELSE IF current >= AGGREGATE_LIMITS(ActionOf(q.op))
       THEN Step(r, Respond([q EXCEPT !.count = current, !.aggregate = "rejected"], 429))
            /\ UNCHANGED hits
     ELSE AggregateNext(r, [q EXCEPT !.count = current], "passed")
  /\ UNCHANGED <<agent_identities, users, agent_tokens, now, credentials, started,
                 posts, replies, votes, pager>>

\* ------------------------------------------------------ content handlers
\* Rows carry the columns the queries read.  A row that no request names (the
\* history of an account) has the id NoId and stands for as many rows as its
\* count in the bag says.
\* INSERT INTO a table
Insert(table, row) == table (+) SetToBag({row})

\* gen_random_uuid(): an id that no row of the table has
NewId(table) ==
  CHOOSE n \in 1..(Cardinality(DOMAIN table) + 1) : \A row \in DOMAIN table : row.id # n

PostRow(id, authorId, score, voteCount, createdAt, deletedAt) ==
  [id |-> id, author_id |-> authorId, score |-> score, vote_count |-> voteCount,
   created_at |-> createdAt, deleted_at |-> deletedAt]

ReplyRow(id, postId, authorId, parentId, depth, path, createdAt, deletedAt) ==
  [id |-> id, post_id |-> postId, author_id |-> authorId, parent_reply_id |-> parentId,
   depth |-> depth, path |-> path, created_at |-> createdAt, deleted_at |-> deletedAt]

\* mutant: the lookup finds soft-deleted posts too
PostRepo_findById_Deleted(id) == {row \in DOMAIN posts : row.id = id}

\* PostRepo.findById: SELECT * FROM posts WHERE id = $1 AND deleted_at IS NULL
PostRepo_findById(id) == {row \in DOMAIN posts : row.id = id /\ row.deleted_at = NoTime}

\* PostRepo.findByIdWithAuthor: the same, JOIN users u ON p.author_id = u.id
PostRepo_findByIdWithAuthor(id) ==
  {row \in DOMAIN posts : /\ \E u \in users : u.id = row.author_id
                           /\ row.id = id
                           /\ row.deleted_at = NoTime}

\* PostRepo.create: INSERT INTO posts (author_id, ...) with the defaults of
\* the other columns
PostRepo_create(authorId) ==
  Insert(posts, PostRow(NewId(posts), authorId, 0, 0, now, NoTime))

\* PostRepo.softDelete:
\* UPDATE posts SET deleted_at = NOW() WHERE id = $1 AND deleted_at IS NULL
PostRepo_softDelete(id) ==
  [row \in {IF p \in PostRepo_findById(id) THEN [p EXCEPT !.deleted_at = now] ELSE p
              : p \in DOMAIN posts}
     |-> BagCardinality([p \in {o \in DOMAIN posts :
                                   row = IF o \in PostRepo_findById(id)
                                           THEN [o EXCEPT !.deleted_at = now] ELSE o}
                           |-> posts[p]])]

\* ReplyRepo.findById: SELECT * FROM replies WHERE id = $1 AND deleted_at IS NULL
ReplyRepo_findById(id) == {row \in DOMAIN replies : row.id = id /\ row.deleted_at = NoTime}

\* newReply.id.replace(/-/g, '_'): the ltree label of a reply id, one label
\* per id
replyIdLabel(id) == [label |-> id]

\* The callback ReplyRepo.create hands to withTransaction, run up to the
\* statement that raises, if one does: the rows of replies as the transaction
\* sees them when it ends, and whether it ended by raising.  fault "create"
\* is an error of its first statement, fault "reply_path" one of a statement
\* after the INSERT.
ReplyRepo_create_callback(postId, authorId, parentId, fault) ==
  LET parents  == ReplyRepo_findById(parentId)
      depth    == IF parentId # NoId THEN (CHOOSE row \in parents : TRUE).depth + 1 ELSE 0
      newReply == ReplyRow(NewId(replies), postId, authorId, parentId, depth, <<>>, now, NoTime)
      \* SELECT path FROM replies WHERE id = $1
      parentPath == (CHOOSE row \in DOMAIN replies : row.id = parentId).path
      label    == replyIdLabel(newReply.id)
      path     == IF parentId # NoId
                    THEN IF parentPath # <<>> THEN Append(parentPath, label) ELSE <<label>>
                    ELSE <<label>>
  IN
  IF fault = "create" THEN [rows |-> replies, raised |-> TRUE]
  ELSE IF parentId # NoId /\ parents = {} THEN [rows |-> replies, raised |-> TRUE]
  ELSE IF fault = "reply_path" THEN [rows |-> Insert(replies, newReply), raised |-> TRUE]
  ELSE [rows |-> Insert(replies, [newReply EXCEPT !.path = path]), raised |-> FALSE]

\* mutant: an error does not undo the statements that ran before it
withTransaction_NoRollback(table, result) == result.rows

\* withTransaction: BEGIN, the callback, COMMIT; an error of the callback is
\* answered by ROLLBACK and thrown on.  The table after it.
withTransaction(table, result) == IF result.raised THEN table ELSE result.rows

\* ReplyRepo.create.  The statements of the transaction read only the parent
\* row, which no request of the model changes, so the transaction is one step.
ReplyRepo_create(postId, authorId, parentId, fault) ==
  withTransaction(replies, ReplyRepo_create_callback(postId, authorId, parentId, fault))

\* VoteRepo.upsert for a voter who has not voted on the target yet
VoteRepo_upsert(userId) ==
  Insert(votes, [user_id |-> userId, created_at |-> now])

\* POST /posts/:id/replies and POST /votes (on a post): the post is looked up
ContentTarget(r) ==
  /\ req[r].pc = "target"
  /\ LET q == req[r] IN
     Step(r,
       IF Raises(q) THEN Respond(q, 500)
       ELSE IF PostRepo_findById(q.target) = {} THEN Respond(q, 404)
       ELSE IF q.op = "reply" /\ q.parent # NoId THEN [q EXCEPT !.pc = "parent"]
       ELSE [q EXCEPT !.pc = "create"])
  /\ UNCHANGED <<agent_identities, users, agent_tokens, now, credentials, started, content>>

\* POST /posts/:id/replies with a parent_reply_id: the parent is looked up
\* and must belong to the post
ContentParent(r) ==
  /\ req[r].pc = "parent"
  /\ LET q == req[r] IN
     Step(r,
       IF Raises(q) THEN Respond(q, 500)
       ELSE IF ReplyRepo_findById(q.parent) = {} THEN Respond(q, 404)
       ELSE IF (CHOOSE row \in ReplyRepo_findById(q.parent) : TRUE).post_id # q.target
         THEN Respond(q, 400)
       ELSE [q EXCEPT !.pc = "create"])
  /\ UNCHANGED <<agent_identities, users, agent_tokens, now, credentials, started, content>>

\* the row is created; a post or a reply goes on to enqueue its analysis, a
\* vote is answered
ContentCreate(r) ==
  /\ req[r].pc = "create"
  /\ LET q == req[r]
         created == ReplyRepo_create_callback(q.target, q.user.id, q.parent, q.fault)
         failed == IF q.op = "reply" THEN created.raised ELSE Raises(q)
     IN
     /\ posts'   = IF q.op = "post" /\ ~failed THEN PostRepo_create(q.user.id) ELSE posts
     /\ replies' = IF q.op = "reply"
                     THEN ReplyRepo_create(q.target, q.user.id, q.parent, q.fault)
                     ELSE replies
     /\ votes'   = IF q.op = "vote" /\ ~failed THEN VoteRepo_upsert(q.user.id) ELSE votes
     /\ Step(r, IF failed THEN Respond(q, 500)
                ELSE IF q.op = "vote" THEN Respond(q, 201)
                ELSE [q EXCEPT !.pc = "enqueue",
                               !.created = NewId(IF q.op = "post" THEN posts ELSE replies)])
  /\ UNCHANGED <<agent_identities, users, agent_tokens, now, credentials, started, hits, pager>>

\* mutant: an error of enqueueAnalysis reaches the handler's outer catch
ContentEnqueue_Surfaced(r) ==
  /\ req[r].pc = "enqueue"
  /\ LET q == req[r] IN
     Step(r, IF Raises(q) THEN Respond([q EXCEPT !.enqueue = "failed"], 500)
             ELSE Respond([q EXCEPT !.enqueue = "queued"], 201))
  /\ UNCHANGED <<agent_identities, users, agent_tokens, now, credentials, started, content>>

\* await enqueueAnalysis(...) inside its own try: an error is logged and the
\* handler goes on to answer 201
ContentEnqueue(r) ==
  /\ req[r].pc = "enqueue"
  /\ LET q == req[r] IN
     Step(r, Respond([q EXCEPT !.enqueue = IF Raises(q) THEN "failed" ELSE "queued"], 201))
  /\ UNCHANGED <<agent_identities, users, agent_tokens, now, credentials, started, content>>

\* GET /posts/:id
PostGet(r) ==
  /\ req[r].pc = "post_get"
  /\ LET q == req[r] IN
     Step(r,
       IF Raises(q) THEN Respond(q, 500)
       ELSE IF PostRepo_findByIdWithAuthor(q.target) = {} THEN Respond(q, 404)
       ELSE Respond(q, 200))
  /\ UNCHANGED <<agent_identities, users, agent_tokens, now, credentials, started, content>>

\* DELETE /posts/:id: the post is looked up; only its author may delete it
PostDelFind(r) ==
  /\ req[r].pc = "post_del_find"
  /\ LET q == req[r] IN
     Step(r,
       IF Raises(q) THEN Respond(q, 500)
       ELSE IF PostRepo_findById(q.target) = {} THEN Respond(q, 404)
       ELSE IF (CHOOSE row \in PostRepo_findById(q.target) : TRUE).author_id # q.user.id
         THEN Respond(q, 403)
       ELSE [q EXCEPT !.pc = "post_del"])
  /\ UNCHANGED <<agent_identities, users, agent_tokens, now, credentials, started, content>>

\* DELETE /posts/:id: await PostRepo.softDelete(id), whose result is not read
PostDel(r) ==
  /\ req[r].pc = "post_del"
  /\ LET q == req[r] IN
     IF Raises(q)
       THEN Step(r, Respond(q, 500)) /\ UNCHANGED posts
       ELSE posts' = PostRepo_softDelete(q.target) /\ Step(r, Respond(q, 200))
  /\ UNCHANGED <<agent_identities, users, agent_tokens, now, credentials, started,
                 replies, votes, hits, pager>>

\* ------------------------------------------------------------------ feed
\* Strings are sequences of one-character strings.
Digit(d) ==
  CASE d = 0 -> "0" [] d = 1 -> "1" [] d = 2 -> "2" [] d = 3 -> "3" [] d = 4 -> "4"
    [] d = 5 -> "5" [] d = 6 -> "6" [] d = 7 -> "7" [] d = 8 -> "8" [] d = 9 -> "9"

DigitValue(c) == CHOOSE d \in 0..9 : Digit(d) = c

IsDigit(c) == \E d \in 0..9 : Digit(d) = c

RECURSIVE Digits(_)
Digits(n) == IF n < 10 THEN <<Digit(n)>> ELSE Append(Digits(n \div 10), Digit(n % 10))

\* `${n}` of an integer
String(n) == IF n < 0 THEN <<"-">> \o Digits(-n) ELSE Digits(n)

\* the value of the longest prefix of s made of digits; -1 when it is empty (NaN)
RECURSIVE parseDigits(_, _)
parseDigits(s, acc) ==
  IF s = <<>> \/ ~IsDigit(Head(s)) THEN acc
  ELSE parseDigits(Tail(s), (IF acc < 0 THEN 0 ELSE acc) * 10 + DigitValue(Head(s)))

\* parseInt(s, 10) of a string that starts with a number
parseInt(s) ==
  IF s # <<>> /\ Head(s) = "-" THEN 0 - parseDigits(Tail(s), -1) ELSE parseDigits(s, -1)

\* Date.prototype.toISOString: timestamps are on the grid of the clock and
\* are written as "T" and the reading of the clock
toISOString(t) == <<"T">> \o Digits(t)

\* new Date(s) of such a string
newDate(s) == parseDigits(Tail(s), -1)

\* s.split('_'): the pieces of s between the underscores
RECURSIVE split(_)
split(s) ==
  IF \A i \in 1..Len(s) : s[i] # "_" THEN <<s>>
  ELSE LET k == CHOOSE i \in 1..Len(s) : s[i] = "_" /\ \A j \in 1..(i - 1) : s[j] # "_"
       IN <<SubSeq(s, 1, k - 1)>> \o split(SubSeq(s, k + 1, Len(s)))

\* nextCursor of the top feed: `${lastItem.score}_${lastItem.created_at}`
topCursor(lastItem) == String(lastItem.score) \o <<"_">> \o toISOString(lastItem.created_at)

\* the cursorCondition of the top feed
topCursorCondition(p, cursor) ==
  \/ cursor = NULL
  \/ LET score     == parseInt(split(cursor)[1])
         createdAt == newDate(split(cursor)[2])
     IN p.score < score \/ (p.score = score /\ p.created_at < createdAt)

\* the sort modes of the feed
Sorts == {"new", "top", "rising", "controversial", "hot"}

\* config.feedAlgorithms.rising.windowHours, by default
windowHours == 24

\* config.feedAlgorithms.controversial.minVotes, by default
minVotes == 5

\* nextCursor of the other feeds: lastItem.created_at
createdAtCursor(lastItem) == toISOString(lastItem.created_at)

\* 'AND p.created_at < $2' with new Date(cursor), when there is a cursor
createdAtCursorCondition(p, cursor) == cursor = NULL \/ p.created_at < newDate(cursor)

\* mutant: the rising feed has no recency window
cursorCondition_NoWindow(sort, p, cursor) ==
  CASE sort = "top" -> topCursorCondition(p, cursor)
    [] sort = "controversial" ->
         p.vote_count >= minVotes /\ createdAtCursorCondition(p, cursor)
    [] OTHER -> createdAtCursorCondition(p, cursor)

\* mutant: the controversial feed has no engagement threshold
cursorCondition_NoThreshold(sort, p, cursor) ==
  CASE sort = "top" -> topCursorCondition(p, cursor)
    [] sort = "rising" ->
         p.created_at > now - windowHours /\ createdAtCursorCondition(p, cursor)
    [] OTHER -> createdAtCursorCondition(p, cursor)

\* the cursorCondition of each sort mode
cursorCondition(sort, p, cursor) ==
  CASE sort = "top" -> topCursorCondition(p, cursor)
    [] sort = "rising" ->
         p.created_at > now - windowHours /\ createdAtCursorCondition(p, cursor)
    [] sort = "controversial" ->
         p.vote_count >= minVotes /\ createdAtCursorCondition(p, cursor)
    [] OTHER -> createdAtCursorCondition(p, cursor)

\* FROM posts p JOIN users u ON p.author_id = u.id
\* WHERE p.deleted_at IS NULL AND cursorCondition
feedMatches(sort, cursor) ==
  {p \in DOMAIN posts : /\ \E u \in users : u.id = p.author_id
                         /\ p.deleted_at = NoTime
                         /\ cursorCondition(sort, p, cursor)}

\* ORDER BY p.score DESC, p.created_at DESC: p1 may come right before p2
topOrder(p1, p2) ==
  \/ p1.score > p2.score
  \/ p1.score = p2.score /\ p1.created_at >= p2.created_at

RECURSIVE Power(_, _)
Power(x, n) == IF n = 0 THEN 1 ELSE x * Power(x, n - 1)

\* a / POWER(x, n / 5) > b / POWER(y, n / 5) for x, y > 0, in integers: both
\* sides are multiplied by the two powers and raised to the fifth power,
\* which keeps their order; equal numerators or equal bases need no powers
RankAbove(a, x, b, y, n) ==
  IF a = b THEN (a > 0 /\ x < y) \/ (a < 0 /\ x > y)
  ELSE IF x = y THEN a > b
  ELSE IF a <= 0 /\ b >= 0 THEN FALSE
  ELSE IF a >= 0 /\ b <= 0 THEN TRUE
  ELSE Power(a, 5) * Power(y, n) > Power(b, 5) * Power(x, n)

\* EXTRACT(EPOCH FROM (NOW() - p.created_at)) / 3600 + 2; the clock counts
\* hours
AgePlusTwo(p) == now - p.created_at + 2

Abs(x) == IF x < 0 THEN 0 - x ELSE x

\* key(p1) > key(p2) for the first ORDER BY expression of a sort mode
KeyAbove(sort, p1, p2) ==
  CASE sort = "new" -> p1.created_at > p2.created_at
    [] sort = "top" -> p1.score > p2.score
    [] sort = "rising" ->
         RankAbove(p1.vote_count, AgePlusTwo(p1), p2.vote_count, AgePlusTwo(p2), 6)
    [] sort = "controversial" ->
         p1.vote_count * (Abs(p2.score) + 1) > p2.vote_count * (Abs(p1.score) + 1)
    [] OTHER ->
         RankAbove(p1.score, AgePlusTwo(p1), p2.score, AgePlusTwo(p2), 9)

\* the orderClause of each sort mode: p1 may come right before p2
feedOrder(sort, p1, p2) ==
  \/ KeyAbove(sort, p1, p2)
  \/ ~KeyAbove(sort, p2, p1) /\ p1.created_at >= p2.created_at

\* the results the query can return, result.rows: the matching rows in any
\* order that ORDER BY allows, cut by LIMIT limit + 1
feedQuery(sort, cursor, limit) ==
  LET m == feedMatches(sort, cursor)
      N == CountRows(posts, m)
      ordered == {rows \in [1..N -> m] :
                    /\ \A p \in m : Cardinality({i \in 1..N : rows[i] = p}) = posts[p]
                    /\ \A i \in 1..(N - 1) : feedOrder(sort, rows[i], rows[i + 1])}
  IN {SubSeq(rows, 1, IF N < limit + 1 THEN N ELSE limit + 1) : rows \in ordered}

\* mutant: every full page announces a next one
getFeed_FullPageHasMore(sort, limit, rows) ==
  LET hasMore == Len(rows) >= limit
      items   == SubSeq(rows, 1, IF Len(rows) > limit THEN limit ELSE Len(rows))
  IN [items   |-> items,
      cursor  |-> IF hasMore /\ Len(items) > 0
                    THEN IF sort = "top" THEN topCursor(items[Len(items)])
                         ELSE createdAtCursor(items[Len(items)])
                    ELSE NULL,
      hasMore |-> hasMore]

\* PostRepo.getFeed(sort, limit, cursor), given the rows the query returned
getFeed(sort, limit, rows) ==
  LET hasMore == Len(rows) > limit
      items   == SubSeq(rows, 1, IF hasMore THEN limit ELSE Len(rows))
  IN [items   |-> items,
      cursor  |-> IF hasMore /\ Len(items) > 0
                    THEN IF sort = "top" THEN topCursor(items[Len(items)])
                         ELSE createdAtCursor(items[Len(items)])
                    ELSE NULL,
      hasMore |-> hasMore]

\* the client has a page: it keeps the items and the cursor
Turn(sort, limit, page) ==
  pager' = [sort |-> sort, limit |-> limit, cursor |-> page.cursor,
            items |-> pager.items \o page.items, hasMore |-> page.hasMore,
            pages |-> pager.pages + 1]

\* GET /feed?sort=s&limit=n
FeedFirst(sort) ==
  /\ pager = NoPager
  /\ \E limit \in 1..MaxLimit : \E rows \in feedQuery(sort, NULL, limit) :
       Turn(sort, limit, getFeed(sort, limit, rows))
  /\ UNCHANGED <<agent_identities, users, agent_tokens, now, credentials, req, resp, started,
                 posts, replies, votes, hits>>

\* GET /feed?sort=s&limit=n&cursor=c with the cursor of the page before
FeedNext ==
  /\ pager.pages > 0 /\ pager.cursor # NULL
  /\ \E rows \in feedQuery(pager.sort, pager.cursor, pager.limit) :
       Turn(pager.sort, pager.limit, getFeed(pager.sort, pager.limit, rows))
  /\ UNCHANGED <<agent_identities, users, agent_tokens, now, credentials, req, resp, started,
                 posts, replies, votes, hits>>

\* ------------------------------------------------------------------- clock
Tick ==
  /\ now < MaxTime
  /\ now' = now + 1
  /\ hits' = NoHits
  /\ UNCHANGED <<agent_identities, users, agent_tokens, credentials, req, resp, started,
                 posts, replies, votes, pager>>

\* ----------------------------------------------------------- specification
Init ==
  /\ agent_identities =
       {[id |-> a, owner_id |-> "h1", name |-> InitialName, deleted_at |-> NoTime]
          : a \in RegisteredAtStart}
  /\ users =
       {[id |-> h, user_type |-> "human", deleted_at |-> NoTime] : h \in Humans} \cup
       {[id |-> a, user_type |-> "agent", deleted_at |-> NoTime] : a \in RegisteredAtStart}
  /\ agent_tokens = {}
  /\ now = 0
  /\ credentials = {}
  /\ req = [r \in Slots |-> Idle]
  /\ resp = Idle
  /\ started = 0
  /\ posts = EmptyBag
  /\ replies = EmptyBag
  /\ votes = EmptyBag
  /\ hits = NoHits
  /\ pager = NoPager

\* Token lifecycle: the clients issue, present and revoke agent tokens, two
\* requests at a time.
TokenClients(q) ==
  \/ /\ q.op = "issueToken"
     /\ \/ q.cred = SessionCred("h1") /\ q.agentId = "a1" /\ q.fault \in {"none", "tok_create"}
        \/ q.cred = SessionCred("h1") /\ q.agentId = "a2" /\ q.fault = "none"
        \/ q.cred = SessionCred("h2") /\ q.agentId = "a1" /\ q.fault = "none"
  \/ /\ q.op = "revokeAll"
     /\ q.cred \in {SessionCred("h1"), SessionCred("h2")} /\ q.agentId = "a1"
     /\ q.fault = "none"
  \/ /\ q.op = "me"
     /\ \/ q.cred \in credentials /\ q.fault \in {"none", "auth"}
        \/ q.cred \in {NoCred, BadCred, SessionCred("h1")} /\ q.fault = "none"

NextTokens ==
  \/ \E r \in Slots : Receive(r, MaxRequests, {"issueToken", "revokeAll", "me"}) /\ TokenClients(req'[r])
  \/ \E r \in Slots : AuthenticateToken(r)
  \/ \E r \in Slots : TokFind(r)
  \/ \E r \in Slots : TokCreate(r)
  \/ \E r \in Slots : RevFind(r)
  \/ \E r \in Slots : RevTokens(r)
  \/ \E r \in Slots : MeFind(r)
  \/ Tick

SpecTokens == Init /\ [][NextTokens]_vars

\* Deletion: the owner deletes an agent while tokens are issued for it and
\* presented, also on a route that is mounted without authenticateToken.
DeleteClients(q) ==
  \/ /\ q.op = "issueToken"
     /\ q.cred = SessionCred("h1") /\ q.agentId \in {"a1", "A1"}
     /\ q.fault = "none"
  \/ /\ q.op = "delete"
     /\ q.cred = SessionCred("h1") /\ q.agentId = "a1"
     /\ q.fault \in {"none", "del_tokens"}
  \/ /\ q.op = "me"
     /\ q.cred \in credentials /\ q.fault = "none"
  \/ /\ q.op = "getAgent"
     /\ q.cred \in credentials \cup {NoCred} /\ q.agentId = "a1"
     /\ q.fault = "none"

NextDelete ==
  \/ \E r \in Slots : Receive(r, MaxRequests, {"issueToken", "delete", "me", "getAgent"}) /\ DeleteClients(req'[r])
  \/ \E r \in Slots : AuthenticateToken(r)
  \/ \E r \in Slots : DelFind(r)
  \/ \E r \in Slots : DelAgent(r)
  \/ \E r \in Slots : DelUser(r)
  \/ \E r \in Slots : DelTokens(r)
  \/ \E r \in Slots : TokFind(r)
  \/ \E r \in Slots : TokCreate(r)
  \/ \E r \in Slots : MeFind(r)
  \/ \E r \in Slots : GetFind(r)
  \/ Tick

SpecDelete == Init /\ [][NextDelete]_vars

\* Agent lifecycle: the owner registers agents (also under the handle of a
\* deleted one), issues tokens for an agent, renames it, revokes its tokens
\* and deletes it, and the agent itself tries to register an agent.
LifecycleClients(q) ==
  /\ q.fault = "none"
  /\ \/ /\ q.op \in {"issueToken", "update", "revokeAll", "delete"}
        /\ q.cred = SessionCred("h1") /\ q.agentId = "a1"
     \/ /\ q.op = "register"
        /\ \/ q.cred \in credentials /\ q.agentId = "a5"
           \/ q.cred = SessionCred("h1") /\ q.agentId \in {"a1", "a5"}

NextLifecycle ==
  \/ \E r \in Slots : Receive(r, MaxRequests, {"register", "update", "delete", "issueToken", "revokeAll"}) /\ LifecycleClients(req'[r])
  \/ \E r \in Slots : AuthenticateToken(r)
  \/ \E r \in Slots : RegCount(r)
  \/ \E r \in Slots : RegFind(r)
  \/ \E r \in Slots : RegCreate(r)
  \/ \E r \in Slots : RegUser(r)
  \/ \E r \in Slots : UpdFind(r)
  \/ \E r \in Slots : UpdApply(r)
  \/ \E r \in Slots : DelFind(r)
  \/ \E r \in Slots : DelAgent(r)
  \/ \E r \in Slots : DelUser(r)
  \/ \E r \in Slots : DelTokens(r)
  \/ \E r \in Slots : TokFind(r)
  \/ \E r \in Slots : TokCreate(r)
  \/ \E r \in Slots : RevFind(r)
  \/ \E r \in Slots : RevTokens(r)
  \/ Tick

SpecLifecycle == Init /\ [][NextLifecycle]_vars

\* Registration: owners register agents and delete them.
RegisterClients(q) ==
  \/ /\ q.op = "register"
     /\ \/ /\ q.cred = SessionCred("h1")
           /\ \/ q.agentId = "a5" /\ q.fault \in {"none", "reg_user"}
              \/ q.agentId \in {"A5", "a6", "a1"} /\ q.fault = "none"
              \/ q.agentId = "h2" /\ q.fault \in {"none", "reg_cleanup"}
        \/ q.cred = SessionCred("h2") /\ q.agentId \in {"a5", "A1"} /\ q.fault = "none"
  \/ /\ q.op = "delete"
     /\ q.cred = SessionCred("h1") /\ q.agentId = "a1"
     /\ q.fault = "none"

RegisterSteps ==
  \/ \E r \in Slots : AuthenticateToken(r)
  \/ \E r \in Slots : RegCount(r)
  \/ \E r \in Slots : RegFind(r)
  \/ \E r \in Slots : RegCreate(r)
  \/ \E r \in Slots : RegUser(r)
  \/ \E r \in Slots : RegCleanup(r)
  \/ \E r \in Slots : DelFind(r)
  \/ \E r \in Slots : DelAgent(r)
  \/ \E r \in Slots : DelUser(r)
  \/ \E r \in Slots : DelTokens(r)
  \/ Tick

\* two requests at a time
NextRegister ==
  \/ \E r \in Slots : Receive(r, MaxRequests, {"register", "delete"}) /\ RegisterClients(req'[r])
  \/ RegisterSteps

SpecRegister == Init /\ [][NextRegister]_vars

\* no overlapping requests: a request arrives only when none is in flight
NextSeq ==
  \/ \E r \in Slots :
       /\ \A p \in Slots : ~InFlight(p)
       /\ Receive(r, MaxSeqRequests, {"register", "delete"}) /\ RegisterClients(req'[r])
  \/ RegisterSteps

SpecSeq == Init /\ [][NextSeq]_vars

\* Rate governance: agents and humans post, reply and vote.  Server and
\* database have been running for a while.  h1 owns a1, a2 and a4 and has
\* deleted a3; h2 owns b1.  a1 and a2 hold a fresh token each and have been
\* busy: their owner is one post, one reply and one vote short of each
\* ceiling, and a2 is one post short of its own limit.
OwnerOfAtStart(a) == IF a = "b1" THEN "h2" ELSE "h1"

\* n rows authored by author at time t
PostRows(n, author, t) == PostRow(NoId, author, 0, 0, t, NoTime) :> n

ReplyRows(n, author, t) == ReplyRow(NoId, NoId, author, NoId, 0, <<>>, t, NoTime) :> n

VoteRows(n, user, t) == [user_id |-> user, created_at |-> t] :> n

InitLimits ==
  /\ agent_identities =
       {[id |-> a, owner_id |-> OwnerOfAtStart(a), name |-> InitialName,
         deleted_at |-> IF a = "a3" THEN 1 ELSE NoTime]
          : a \in RegisteredAtStart \cup {"b1"}}
  /\ users =
       {[id |-> h, user_type |-> "human", deleted_at |-> NoTime] : h \in Humans} \cup
       {[id |-> a, user_type |-> "agent", deleted_at |-> IF a = "a3" THEN 1 ELSE NoTime]
          : a \in RegisteredAtStart \cup {"b1"}}
  /\ now = 1
  /\ agent_tokens =
       {[agent_id |-> "a1", jti |-> 1, expires_at |-> now + TOKEN_TTL, revoked_at |-> NoTime],
        [agent_id |-> "a2", jti |-> 2, expires_at |-> now + TOKEN_TTL, revoked_at |-> NoTime]}
  /\ credentials = {generateAuthToken("a1", "agent", 1, TOKEN_TTL),
                    generateAuthToken("a2", "agent", 2, TOKEN_TTL)}
  /\ req = [r \in Slots |-> Idle]
  /\ resp = Idle
  /\ started = 0
  /\ posts = PostRows(2, "a1", 0) @@ PostRows(3, "a3", 1) @@ PostRows(4, "b1", 1) @@
             PostRows(4, "h1", 1) @@ PostRows(60, "a1", 1) @@ PostRows(39, "a2", 1) @@
             PostRow(1, "h1", 0, 0, 1, NoTime) :> 1
  /\ replies = ReplyRows(1, "a2", 0) @@ ReplyRows(1, "b1", 1) @@ ReplyRows(1, "h1", 1) @@
               ReplyRows(300, "a1", 1) @@ ReplyRows(199, "a2", 1)
  /\ votes = VoteRows(1, "a1", 0) @@ VoteRows(1, "b1", 1) @@ VoteRows(1, "h1", 1) @@
             VoteRows(900, "a1", 1) @@ VoteRows(599, "a2", 1)
  /\ hits = [k \in {<<"posts", "a2">>} |-> 29]
  /\ pager = NoPager

LimitClients(q) ==
  /\ q.op \in ContentOps
  /\ q.target \in {NoId, 1}
  /\ q.parent = NoId
  /\ \/ q.cred.id = "a1" /\ q.cred \in credentials /\ q.fault = "none"
     \/ q.cred.id = "a1" /\ q.cred \in credentials /\ q.op = "reply" /\ q.fault = "agg_count"
     \/ q.cred.id = "a2" /\ q.cred \in credentials /\ q.op = "post" /\ q.fault = "none"
     \/ q.cred = SessionCred("h1") /\ q.op = "post" /\ q.fault = "none"

NextLimits ==
  \/ \E r \in Slots : Receive(r, MaxRequests, ContentOps) /\ LimitClients(req'[r])
  \/ \E r \in Slots : AuthenticateToken(r)
  \/ \E r \in Slots : AggFind(r)
  \/ \E r \in Slots : AggCount(r)
  \/ \E r \in Slots : ContentTarget(r)
  \/ \E r \in Slots : ContentCreate(r)
  \/ \E r \in Slots : ContentEnqueue(r)

SpecLimits == InitLimits /\ [][NextLimits]_vars

\* Orphans: the owner deletes a1 (the revocation of its tokens may fail)
\* while a1 posts, replies and votes with its token.
OrphanClients(q) ==
  \/ /\ q.op = "delete"
     /\ q.cred = SessionCred("h1") /\ q.agentId = "a1"
     /\ q.fault \in {"none", "del_tokens"}
  \/ /\ q.op \in ContentOps
     /\ q.cred.id = "a1" /\ q.cred \in credentials
     /\ q.target \in {NoId, 1} /\ q.parent = NoId
     /\ q.fault = "none"

NextOrphan ==
  \/ \E r \in Slots : Receive(r, MaxRequests, ContentOps \cup {"delete"}) /\ OrphanClients(req'[r])
  \/ \E r \in Slots : AuthenticateToken(r)
  \/ \E r \in Slots : DelFind(r)
  \/ \E r \in Slots : DelAgent(r)
  \/ \E r \in Slots : DelUser(r)
  \/ \E r \in Slots : DelTokens(r)
  \/ \E r \in Slots : AggFind(r)
  \/ \E r \in Slots : AggCount(r)
  \/ \E r \in Slots : ContentTarget(r)
  \/ \E r \in Slots : ContentCreate(r)
  \/ \E r \in Slots : ContentEnqueue(r)

SpecOrphan == InitLimits /\ [][NextOrphan]_vars

\* Race: a1 and a2, agents of h1, post, reply and vote at the same time; no
\* call raises.
RaceClients(q) ==
  /\ q.op \in ContentOps
  /\ q.cred \in credentials
  /\ q.target \in {NoId, 1} /\ q.parent = NoId
  /\ q.fault = "none"

NextRace ==
  \/ \E r \in Slots : Receive(r, MaxRequests, ContentOps) /\ RaceClients(req'[r])
  \/ \E r \in Slots : AuthenticateToken(r)
  \/ \E r \in Slots : AggFind(r)
  \/ \E r \in Slots : AggCount(r)
  \/ \E r \in Slots : ContentTarget(r)
  \/ \E r \in Slots : ContentCreate(r)
  \/ \E r \in Slots : ContentEnqueue(r)

SpecRace == InitLimits /\ [][NextRace]_vars

\* Threads: h1 writes posts and replies to posts 1 and 2, under replies or
\* not, while calls may raise.  Post 1 has reply 1 and, under it, reply 2;
\* post 2 has reply 3, which was deleted.
InitThread ==
  /\ agent_identities = {}
  /\ users = {[id |-> h, user_type |-> "human", deleted_at |-> NoTime] : h \in Humans}
  /\ agent_tokens = {}
  /\ now = MaxTime
  /\ credentials = {}
  /\ req = [r \in Slots |-> Idle]
  /\ resp = Idle
  /\ started = 0
  /\ posts = PostRow(1, "h1", 0, 0, 0, NoTime) :> 1 @@ PostRow(2, "h2", 0, 0, 0, NoTime) :> 1
  /\ replies =
       ReplyRow(1, 1, "h2", NoId, 0, <<replyIdLabel(1)>>, 0, NoTime) :> 1 @@
       ReplyRow(2, 1, "h1", 1, 1, <<replyIdLabel(1), replyIdLabel(2)>>, 0, NoTime) :> 1 @@
       ReplyRow(3, 2, "h2", NoId, 0, <<replyIdLabel(3)>>, 0, 0) :> 1
  /\ votes = EmptyBag
  /\ hits = NoHits
  /\ pager = NoPager

ThreadClients(q) ==
  /\ q.cred = SessionCred("h1")
  /\ \/ q.op = "post" /\ q.fault \in {"none", "enqueue"}
     \/ /\ q.op = "reply" /\ q.target \in {1, 2}
        /\ q.fault \in {"none", "reply_path", "enqueue"}

\* one request at a time
NextThread ==
  \/ \E r \in Slots :
       /\ \A p \in Slots : ~InFlight(p)
       /\ Receive(r, MaxRequests, {"post", "reply"}) /\ ThreadClients(req'[r])
  \/ \E r \in Slots : AuthenticateToken(r)
  \/ \E r \in Slots : AggFind(r)
  \/ \E r \in Slots : ContentTarget(r)
  \/ \E r \in Slots : ContentParent(r)
  \/ \E r \in Slots : ContentCreate(r)
  \/ \E r \in Slots : ContentEnqueue(r)

SpecThread == InitThread /\ [][NextThread]_vars

\* Feed: a client reads the top feed page after page while nothing changes.
\* The posts were written by h1 and voted up or down before; some were deleted.
FeedScores == {-1, 1}

FeedRows ==
  [id : {NoId}, author_id : {"h1"}, score : FeedScores, vote_count : {1},
   created_at : 0..MaxTime, deleted_at : {NoTime, MaxTime}]

\* the table that holds the rows of a list of rows
TableOf(list) ==
  [p \in {list[i] : i \in 1..Len(list)} |->
     Cardinality({i \in 1..Len(list) : list[i] = p})]

InitFeed ==
  /\ agent_identities =
       {[id |-> a, owner_id |-> "h1", name |-> InitialName, deleted_at |-> NoTime]
          : a \in RegisteredAtStart}
  /\ users =
       {[id |-> h, user_type |-> "human", deleted_at |-> NoTime] : h \in Humans} \cup
       {[id |-> a, user_type |-> "agent", deleted_at |-> NoTime] : a \in RegisteredAtStart}
  /\ agent_tokens = {}
  /\ now = MaxTime
  /\ credentials = {}
  /\ req = [r \in Slots |-> Idle]
  /\ resp = Idle
  /\ started = 0
  /\ \E n \in 1..MaxPosts : \E list \in [1..n -> FeedRows] : posts = TableOf(list)
  /\ replies = EmptyBag
  /\ votes = EmptyBag
  /\ hits = NoHits
  /\ pager = NoPager

NextFeed == FeedFirst("top") \/ FeedNext

SpecFeed == InitFeed /\ [][NextFeed]_vars

\* Newest: a client reads the new feed page after page while h1 writes posts.
NewestClients(q) == q.op = "post" /\ q.cred = SessionCred("h1") /\ q.fault = "none"

NextNewest ==
  \/ FeedFirst("new")
  \/ FeedNext
  \/ \E r \in Slots :
       /\ \A p \in Slots : ~InFlight(p)
       /\ Receive(r, MaxRequests, {"post"}) /\ NewestClients(req'[r])
  \/ \E r \in Slots : AuthenticateToken(r)
  \/ \E r \in Slots : AggFind(r)
  \/ \E r \in Slots : ContentCreate(r)
  \/ \E r \in Slots : ContentEnqueue(r)

SpecNewest == InitFeed /\ [][NextNewest]_vars

\* Gone: h1 deletes its posts (post 1; post 2 it has deleted before) while
\* it and anonymous clients look posts up, reply and vote, and a client
\* reads a feed.  Post 3 is h2's.
InitGone ==
  /\ agent_identities = {}
  /\ users = {[id |-> h, user_type |-> "human", deleted_at |-> NoTime] : h \in Humans}
  /\ agent_tokens = {}
  /\ now = MaxTime
  /\ credentials = {}
  /\ req = [r \in Slots |-> Idle]
  /\ resp = Idle
  /\ started = 0
  /\ posts = PostRow(1, "h1", 1, 6, 0, NoTime) :> 1 @@ PostRow(2, "h1", 1, 6, 0, 0) :> 1 @@
             PostRow(3, "h2", -1, 6, MaxTime, NoTime) :> 1
  /\ replies = EmptyBag
  /\ votes = EmptyBag
  /\ hits = NoHits
  /\ pager = NoPager

GoneClients(q) ==
  /\ q.fault = "none"
  /\ q.target \in {1, 2}
  /\ \/ q.op \in {"deletePost", "vote"} /\ q.cred = SessionCred("h1")
     \/ q.op = "reply" /\ q.cred = SessionCred("h1") /\ q.parent = NoId
     \/ q.op = "getPost" /\ q.cred = NoCred

\* one request at a time, beside the reader of the feed
NextGone ==
  \/ \E r \in Slots :
       /\ \A p \in Slots : ~InFlight(p)
       /\ Receive(r, MaxRequests, {"getPost", "deletePost", "reply", "vote"}) /\ GoneClients(req'[r])
  \/ \E r \in Slots : AuthenticateToken(r)
  \/ \E r \in Slots : AggFind(r)
  \/ \E r \in Slots : ContentTarget(r)
  \/ \E r \in Slots : ContentCreate(r)
  \/ \E r \in Slots : ContentEnqueue(r)
  \/ \E r \in Slots : PostGet(r)
  \/ \E r \in Slots : PostDelFind(r)
  \/ \E r \in Slots : PostDel(r)
  \/ \E sort \in Sorts : FeedFirst(sort)
  \/ FeedNext

SpecGone == InitGone /\ [][NextGone]_vars

\* Sorts: a client reads a feed of any sort mode page after page while
\* nothing changes.  The server has been up for longer than the rising
\* window; posts are older than the window, an hour old or new, voted on
\* four or six times with a score of 1 or -1; a new popular post may have
\* been deleted.
SortsNow == windowHours + MaxTime

SortRows ==
  {row \in [id : {NoId}, author_id : {"h1"}, score : FeedScores, vote_count : {4, 6},
            created_at : {0, SortsNow - 1, SortsNow}, deleted_at : {NoTime, SortsNow}] :
     row.deleted_at # NoTime =>
       row.score = 1 /\ row.vote_count = 6 /\ row.created_at = SortsNow}

InitSorts ==
  /\ agent_identities = {}
  /\ users = {[id |-> h, user_type |-> "human", deleted_at |-> NoTime] : h \in Humans}
  /\ agent_tokens = {}
  /\ now = SortsNow
  /\ credentials = {}
  /\ req = [r \in Slots |-> Idle]
  /\ resp = Idle
  /\ started = 0
  /\ \E n \in 1..MaxPosts : \E list \in [1..n -> SortRows] : posts = TableOf(list)
  /\ replies = EmptyBag
  /\ votes = EmptyBag
  /\ hits = NoHits
  /\ pager = NoPager

NextSorts == (\E sort \in Sorts : FeedFirst(sort)) \/ FeedNext

SpecSorts == InitSorts /\ [][NextSorts]_vars

\* ================================================================ claims
\* process r takes the step
Stepping(r) == req'[r] # req[r]

\* process r's request is answered with code in this step
Answered(r, code) ==
  /\ req'[r] = Idle
  /\ resp'.op = req[r].op /\ resp'.cred = req[r].cred /\ resp'.agentId = req[r].agentId
  /\ resp'.status = code

TokenRevoked(jti) == \E row \in agent_tokens : row.jti = jti /\ row.revoked_at # NoTime

\* C1: once revokeAll has run for an agent, every token of that agent is
\* revoked, a revoked token stays revoked, and authenticateToken answers any
\* request that presents a revoked token with 401 without running the
\* handler (403 when the validity lookup itself raises): there is no window
\* in which a revoked token is accepted.
C1_RevokedTokenRejected ==
  [][/\ \A r \in Slots :
          (Stepping(r) /\ req[r].pc = "rev_tokens" /\ ~Raises(req[r])) =>
             \A row \in agent_tokens' :
                 row.agent_id = toLowerCase(req[r].agentId) => row.revoked_at # NoTime
     /\ \A row \in agent_tokens : row.revoked_at # NoTime => row \in agent_tokens'
     /\ \A r \in Slots :
          (Stepping(r) /\ req[r].pc = "auth" /\ TokenRevoked(req[r].cred.jti)) =>
             IF Raises(req[r]) /\ jwtVerify(req[r].cred) = "ok"
               THEN Answered(r, 403)
               ELSE Answered(r, 401)
    ]_vars

\* a /auth/me request was answered 401 although its token verifies and has
\* not expired: the token was revoked
C1_Witness ==
  /\ resp.op = "me" /\ resp.status = 401 /\ resp.fault = "none"
  /\ jwtVerify(resp.cred) = "ok"
  /\ \E row \in agent_tokens :
       row.jti = resp.cred.jti /\ row.revoked_at # NoTime /\ row.expires_at > now

\* C2: isTokenValid(jti) is true exactly when a token row with that jti is
\* recorded, has not been revoked and expires after the current time.
C2_IsTokenValidIff ==
  \A jti \in 1..(MaxTokens + 1) :
     LET rows == {row \in agent_tokens : row.jti = jti}
         recorded == rows # {}
         revoked == \A row \in rows : row.revoked_at # NoTime
         expired == \A row \in rows : row.expires_at <= now
     IN  isTokenValid(jti) <=> (recorded /\ ~revoked /\ ~expired)

\* one token is valid while another, never revoked, has expired
C2_Witness ==
  /\ \E row \in agent_tokens : isTokenValid(row.jti)
  /\ \E row \in agent_tokens : row.revoked_at = NoTime /\ row.expires_at <= now

\* C3: every credential a caller holds has its token row, with the same jti
\* and expiry, and an issueToken whose INSERT raises hands out no credential
\* and answers 500.
C3_RecordBeforeReturn ==
  [][/\ \A c \in credentials' :
          \E row \in agent_tokens' :
              /\ row.jti = c.jti /\ row.expires_at = c.exp
              /\ row.agent_id = toLowerCase(c.id)
     /\ \A r \in Slots :
          (Stepping(r) /\ req[r].pc = "tok_create" /\ Raises(req[r])) =>
             /\ credentials' = credentials
             /\ Answered(r, 500)
    ]_vars

C3_Witness ==
  /\ resp.op = "issueToken" /\ resp.status = 201
  /\ credentials # {}

\* C4: a soft-deleted agent with no delete request running has no valid
\* token and no active paired user.
C4_DeleteCascades ==
  \A agent \in agent_identities :
     ( /\ agent.deleted_at # NoTime
       /\ ~\E r \in Slots : req[r].op = "delete" /\ toLowerCase(req[r].agentId) = agent.id )
     => /\ \A row \in agent_tokens : row.agent_id = agent.id => ~isTokenValid(row.jti)
        /\ \A u \in users :
             (u.id = agent.id /\ u.user_type = "agent") => u.deleted_at # NoTime

ActiveAgentsOf(owner) ==
  {agent \in agent_identities : agent.owner_id = owner /\ agent.deleted_at = NoTime}

\* C5: no owner ever has more than 5 non-deleted agent identities.
C5_AtMostFiveAgents ==
  \A h \in Humans : Cardinality(ActiveAgentsOf(h)) <= MAX_AGENTS_PER_USER

\* C6: with requests sent one after the other, a register request of a human
\* who has 5 non-deleted agents is answered 400 and changes no table; a
\* register request of a human who has fewer than 5 (for instance after one
\* of them was soft-deleted) and names a handle that no identity and no user
\* has goes through every step: it inserts the identity, inserts the paired
\* user and is answered 201.
C6_SixthRejectedThenAccepted ==
  [][\A r \in Slots :
        ( /\ Stepping(r) /\ req[r].op = "register" /\ req[r].fault = "none"
          /\ req[r].pc # "auth" /\ req[r].user.user_type = "human" )
        => LET q == req[r]
               id == toLowerCase(q.agentId)
               freshIdentity == ~\E agent \in agent_identities : agent.id = id
               freshUser == ~\E u \in users : u.id = id
           IN
           /\ (q.pc = "reg_count" /\ Cardinality(ActiveAgentsOf(q.user.id)) >= 5) =>
                 /\ Answered(r, 400)
                 /\ agent_identities' = agent_identities /\ users' = users
           /\ (q.pc = "reg_count" /\ Cardinality(ActiveAgentsOf(q.user.id)) < 5) =>
                 req'[r].pc = "reg_find"
           /\ (q.pc = "reg_find" /\ freshIdentity) => req'[r].pc = "reg_create"
           /\ (q.pc = "reg_create" /\ freshIdentity) =>
                 /\ req'[r].pc = "reg_user"
                 /\ agent_identities' = agent_identities \cup
                      {[id |-> id, owner_id |-> q.user.id, name |-> InitialName,
                        deleted_at |-> NoTime]}
           /\ (q.pc = "reg_user" /\ freshUser) =>
                 /\ Answered(r, 201)
                 /\ users' = users \cup
                      {[id |-> id, user_type |-> "agent", deleted_at |-> NoTime]}
    ]_vars

\* the owner had 5 agents, one of them was soft-deleted, and the register
\* request that followed was answered 201: the owner has 5 agents again
C6_Witness ==
  /\ resp.op = "register" /\ resp.status = 201 /\ resp.agentCount = 4
  /\ \E agent \in agent_identities :
       agent.owner_id = resp.user.id /\ agent.deleted_at # NoTime
  /\ Cardinality(ActiveAgentsOf(resp.user.id)) = 5
  /\ Cardinality({agent \in agent_identities : agent.owner_id = resp.user.id}) = 6

\* C7: when no register request is running, every non-deleted agent identity
\* has a user record of type agent with the same id.
C7_PairedUser ==
  (\A r \in Slots : req[r].op # "register") =>
     \A agent \in agent_identities :
        agent.deleted_at = NoTime =>
           \E u \in users : u.id = agent.id /\ u.user_type = "agent"

\* C8: a request that has reached its route handler with req.user set from a
\* credential carrying a jti has passed the isTokenValid check.
C8_JtiAlwaysChecked ==
  \A r \in Slots :
     ( /\ req[r].pc \notin {"idle", "auth"}
       /\ req[r].user # NoUser
       /\ req[r].cred.jti # NoJti )
     => req[r].checked

\* C9: revokeAll stamps revoked_at = now on exactly the agent's tokens that
\* were not revoked, leaves every other row as it was, answers with the
\* number of rows it changed, and afterwards no token of the agent is valid.
C9_RevokeAllEffect ==
  [][\A r \in Slots :
        (Stepping(r) /\ req[r].pc = "rev_tokens" /\ ~Raises(req[r])) =>
           LET a == toLowerCase(req[r].agentId) IN
           /\ \A row \in agent_tokens :
                IF row.agent_id = a /\ row.revoked_at = NoTime
                  THEN /\ row \notin agent_tokens'
                       /\ [row EXCEPT !.revoked_at = now] \in agent_tokens'
                  ELSE row \in agent_tokens'
           /\ Cardinality(agent_tokens') = Cardinality(agent_tokens)
           /\ Answered(r, 200)
           /\ resp'.count = Cardinality(agent_tokens \ agent_tokens')
           /\ \A row \in agent_tokens' :
                row.agent_id = a =>
                   ~(row.revoked_at = NoTime /\ row.expires_at > now')
    ]_vars

\* revokeAll changed a token while a token of another agent stays unrevoked
C9_Witness ==
  /\ resp.op = "revokeAll" /\ resp.status = 200 /\ resp.count >= 1
  /\ \E row \in agent_tokens :
       row.agent_id # toLowerCase(resp.agentId) /\ row.revoked_at = NoTime

\* C10: issueToken and revokeAll by a user who does not own the (existing)
\* agent are answered 403 and change neither agent_tokens nor the
\* credentials handed out; only the owner ever reaches the INSERT or UPDATE.
C10_NonOwnerForbidden ==
  [][\A r \in Slots :
        /\ ( /\ Stepping(r) /\ req[r].pc \in {"tok_find", "rev_find"} /\ ~Raises(req[r])
             /\ \E agent \in agent_identities :
                  /\ agent.id = toLowerCase(req[r].agentId) /\ agent.deleted_at = NoTime
                  /\ agent.owner_id # req[r].user.id )
           => /\ Answered(r, 403)
              /\ agent_tokens' = agent_tokens
              /\ credentials' = credentials
        /\ req'[r].pc \in {"tok_create", "rev_tokens"} =>
              \E agent \in agent_identities' :
                  /\ agent.id = toLowerCase(req'[r].agentId)
                  /\ agent.owner_id = req'[r].user.id
    ]_vars

C10_Witness ==
  /\ resp.op \in {"issueToken", "revokeAll"} /\ resp.status = 403
  /\ resp.cred = SessionCred("h2")
  /\ \E agent \in agent_identities :
       agent.id = toLowerCase(resp.agentId) /\ agent.owner_id = "h1"

\* C14: when the isTokenValid lookup raises while authenticateToken checks a
\* credential that carries a jti, the request is answered 403 by the catch
\* block (401 when the token had already expired, before any lookup), the
\* route handler is never entered and no table changes.
C14_LookupErrorFailsClosed ==
  [][\A r \in Slots :
        ( /\ Stepping(r) /\ req[r].pc = "auth"
          /\ req[r].cred.jti # NoJti /\ Raises(req[r]) )
        => /\ IF jwtVerify(req[r].cred) = "ok" THEN Answered(r, 403) ELSE Answered(r, 401)
           /\ req'[r].pc = "idle"
           /\ UNCHANGED <<agent_identities, users, agent_tokens, credentials>>
    ]_vars

\* the lookup raised for a token that verifies and is recorded, not revoked
\* and not expired: the request was answered 403
C14_Witness ==
  /\ resp.op = "me" /\ resp.fault = "auth" /\ resp.status = 403
  /\ resp.user = NoUser \/ ~resp.checked
  /\ isTokenValid(resp.cred.jti)

\* C15: a register request of an authenticated principal of type agent is
\* answered 403 at the first step of the handler; it never gets to the count,
\* lookup or inserts, and agent_identities and users stay as they were.
C15_AgentCannotRegister ==
  [][\A r \in Slots :
        /\ ( /\ Stepping(r) /\ req[r].pc = "reg_count"
             /\ req[r].user.user_type = "agent" )
           => /\ Answered(r, 403)
              /\ UNCHANGED <<agent_identities, users>>
        /\ (req'[r].op = "register" /\ req'[r].user.user_type = "agent")
           => req'[r].pc \in {"auth", "reg_count"}
    ]_vars

\* an agent holding a valid token asked to register an agent and got 403
C15_Witness ==
  /\ resp.op = "register" /\ resp.status = 403
  /\ resp.user.user_type = "agent" /\ resp.checked
  /\ ~\E agent \in agent_identities : agent.id = toLowerCase(resp.agentId)

\* C17: a soft-deleted identity row never changes again (deleted_at, name and
\* owner stay), and an update, delete, issueToken or revokeAll request that
\* looks the agent up after it was soft-deleted is answered 404 and changes
\* no table.
C17_SoftDeleteIsTerminal ==
  [][/\ \A agent \in agent_identities :
          agent.deleted_at # NoTime => agent \in agent_identities'
     /\ \A r \in Slots :
          ( /\ Stepping(r) /\ ~Raises(req[r])
            /\ req[r].pc \in {"upd_find", "del_find", "tok_find", "rev_find"}
            /\ \E agent \in agent_identities :
                 agent.id = toLowerCase(req[r].agentId) /\ agent.deleted_at # NoTime )
          => /\ Answered(r, 404)
             /\ UNCHANGED <<agent_identities, users, agent_tokens, credentials>>
    ]_vars

\* a token was asked for after the agent was soft-deleted: 404
C17_Witness ==
  /\ resp.op \in {"update", "issueToken", "revokeAll", "delete"} /\ resp.status = 404
  /\ \E agent \in agent_identities :
       agent.id = toLowerCase(resp.agentId) /\ agent.deleted_at # NoTime

\* C16: a register request of a human whose handle, lower-cased, is the id
\* of an existing agent identity row is answered 400 (at the lookup, or at
\* the latest at the insert) and changes neither agent_identities nor users.
C16_DuplicateHandleRejected ==
  [][\A r \in Slots :
        ( /\ Stepping(r) /\ req[r].op = "register" /\ req[r].fault = "none"
          /\ req[r].pc \in {"reg_find", "reg_create"}
          /\ \E agent \in agent_identities : agent.id = toLowerCase(req[r].agentId) )
        => /\ \/ Answered(r, 400)
              \/ req[r].pc = "reg_find" /\ req'[r].pc = "reg_create"
           /\ UNCHANGED <<agent_identities, users>>
    ]_vars

\* C19: for every owner and every windowStart, getOwnerActivityCounts
\* returns, per table, the number of rows authored by a non-deleted agent of
\* that owner and created at or after windowStart.
C19_CountsAtOrAfterWindowStart ==
  \A h \in Humans, windowStart \in 0..MaxTime :
    LET agents == {agent.id : agent \in {i \in agent_identities :
                                           i.owner_id = h /\ i.deleted_at = NoTime}}
    IN getOwnerActivityCounts(h, windowStart) =
         [posts   |-> CountRows(posts, {row \in DOMAIN posts :
                        row.author_id \in agents /\ row.created_at >= windowStart}),
          replies |-> CountRows(replies, {row \in DOMAIN replies :
                        row.author_id \in agents /\ row.created_at >= windowStart}),
          votes   |-> CountRows(votes, {row \in DOMAIN votes :
                        row.user_id \in agents /\ row.created_at >= windowStart})]

\* the request of process r after the step: still in flight, or answered
After(r) == IF req'[r].pc = "idle" THEN resp' ELSE req'[r]

\* the rows of a table created within the trailing hour by the non-deleted
\* agents of the owner of agent id
OwnerRowsInWindow(table, id) ==
  LET owners == {agent.owner_id : agent \in {i \in agent_identities : i.id = id}}
      agents == {agent.id : agent \in {i \in agent_identities :
                                          i.owner_id \in owners /\ i.deleted_at = NoTime}}
  IN CountRows(table, {row \in DOMAIN table :
       /\ (IF "author_id" \in DOMAIN row THEN row.author_id ELSE row.user_id) \in agents
       /\ row.created_at > now - WINDOW_MS})

C12_HumanExempt ==
  [][\A r \in Slots :
        ( Stepping(r) /\ req[r].pc = "agg_find" /\ req[r].user.user_type = "human" )
        => /\ After(r).aggregate = "exempt"
           /\ After(r).owner = NULL /\ After(r).count = -1
           /\ After(r).pc \in {"create", "target", "done"}
           /\ After(r).pc = "done" =>
                After(r).counted[Len(After(r).counted)] = "actionLimiter"
    ]_vars

\* h1 has posted while the agents of h1 are above the ceiling
C12_Witness ==
  /\ resp.op = "post" /\ resp.user = [id |-> "h1", user_type |-> "human"]
  /\ resp.status = 201 /\ resp.aggregate = "exempt"
  /\ getOwnerActivityCounts("h1", now - WINDOW_MS).posts > 100

\* C13: when the count query of the aggregate limiter raises, the limiter
\* does not answer: the request goes on to the per-action limiter of its
\* route.
C13_CountErrorFailsOpen ==
  [][\A r \in Slots :
        ( Stepping(r) /\ req[r].pc = "agg_count" /\ Raises(req[r]) )
        => /\ After(r).aggregate = "failed_open"
           /\ After(r).counted[Len(After(r).counted)] = "actionLimiter"
           /\ After(r).pc \in {"create", "target"} \/ After(r).status = 429
    ]_vars

\* a reply was created although the count query raised, with the owner at
\* the ceiling
C13_Witness ==
  /\ resp.op = "reply" /\ resp.fault = "agg_count" /\ resp.status = 201
  /\ resp.aggregate = "failed_open"
  /\ getOwnerActivityCounts("h1", now - WINDOW_MS).replies > 500

\* the limiters that count per principal
PerAgentLimiters == {"combinedRateLimiter", "actionLimiter"}

FeedDone == pager.pages > 0 /\ ~pager.hasMore

\* C20: when the reader of the top feed has the last page, the pages hold
\* every non-deleted post exactly once, by score descending then creation
\* time descending, and the last page came with a null cursor.
C20_TopFeedComplete ==
  FeedDone =>
    /\ pager.cursor = NULL
    /\ \A p \in DOMAIN posts :
         Cardinality({i \in 1..Len(pager.items) : pager.items[i] = p}) =
           IF p.deleted_at = NoTime THEN posts[p] ELSE 0
    /\ \A i \in 1..Len(pager.items) : pager.items[i] \in DOMAIN posts
    /\ \A i \in 1..(Len(pager.items) - 1) :
         LET p1 == pager.items[i]
             p2 == pager.items[i + 1]
         IN p1.score > p2.score \/ (p1.score = p2.score /\ p1.created_at >= p2.created_at)

\* C29: a post, reply or vote request of an agent principal whose identity
\* is missing or soft-deleted when the aggregate limiter looks it up is
\* answered 401 by the limiter and creates no row, whether or not its
\* credential passed authenticateToken.  (A lookup that raises is the
\* fail-open case of C13.)
C29_OrphanAgentRejected ==
  [][\A r \in Slots :
        ( /\ Stepping(r) /\ req[r].pc = "agg_find"
          /\ req[r].user.user_type = "agent"
          /\ ~Raises(req[r])
          /\ findById(req[r].user.id) = {} )
        => /\ Answered(r, 401)
           /\ resp'.aggregate = "none"
           /\ UNCHANGED <<posts, replies, votes>>
    ]_vars

\* a1's token passed authenticateToken after a1 was deleted, and the
\* limiter answered 401
C29_Witness ==
  /\ resp.op \in ContentOps /\ resp.status = 401
  /\ resp.user.id = "a1" /\ resp.checked
  /\ findById("a1") = {}
  /\ \E row \in agent_tokens : row.agent_id = "a1" /\ row.revoked_at = NoTime

\* C26: however the requests of the agents of one owner interleave, the
\* agents together never have more than 100 posts, 500 replies or 1500 votes
\* created within the trailing hour.
C26_CeilingHolds ==
  /\ OwnerRowsInWindow(posts, "a1") <= AGGREGATE_LIMITS("posts")
  /\ OwnerRowsInWindow(replies, "a1") <= AGGREGATE_LIMITS("replies")
  /\ OwnerRowsInWindow(votes, "a1") <= AGGREGATE_LIMITS("votes")

\* C25: when enqueueing the analysis job of a new post or reply fails, the
\* request is still answered 201 and the row it created stays in its table.
C25_EnqueueBestEffort ==
  [][\A r \in Slots :
        ( Stepping(r) /\ req[r].pc = "enqueue" /\ Raises(req[r]) )
        => /\ Answered(r, 201)
           /\ resp'.enqueue = "failed"
           /\ \E row \in DOMAIN (IF req[r].op = "post" THEN posts' ELSE replies') :
                row.id = req[r].created /\ row.author_id = req[r].user.id
    ]_vars

\* a reply under a reply was answered 201 although its job was not enqueued
C25_Witness ==
  /\ resp.op = "reply" /\ resp.parent # NoId
  /\ resp.enqueue = "failed" /\ resp.status = 201
  /\ \E row \in DOMAIN replies : row.id = resp.created /\ row.path # <<>>

\* the thread invariant of a reply row among the rows of a table
ThreadInvariant(row, table) ==
  IF row.parent_reply_id = NoId
    THEN row.depth = 0 /\ row.path = <<replyIdLabel(row.id)>>
    ELSE \E parent \in DOMAIN table :
           /\ parent.id = row.parent_reply_id
           /\ parent.deleted_at = NoTime
           /\ parent.post_id = row.post_id
           /\ row.depth = parent.depth + 1
           /\ row.path = Append(parent.path, replyIdLabel(row.id))

\* C30: every reply row that POST /posts/:id/replies stores through
\* ReplyRepo.create satisfies the thread invariant: without parent it has
\* depth 0 and a path of its own label; with a parent it has the parent's
\* depth plus one, the parent's path followed by its own label, and the
\* parent's post.  A request whose parent is missing or soft-deleted, or
\* whose transaction raises, leaves the replies as they were.
C30_ThreadInvariant ==
  [][/\ \A row \in DOMAIN replies' \ DOMAIN replies : ThreadInvariant(row, replies')
     /\ \A r \in Slots :
          /\ ( Stepping(r) /\ req[r].pc = "parent"
               /\ ReplyRepo_findById(req[r].parent) = {} )
             => After(r).status \in {404, 500} /\ replies' = replies
          /\ ( Stepping(r) /\ req[r].pc = "create" /\ req[r].op = "reply"
               /\ \/ req[r].fault \in {"create", "reply_path"}
                  \/ req[r].parent # NoId /\ ReplyRepo_findById(req[r].parent) = {} )
             => After(r).status = 500 /\ replies' = replies
    ]_vars

\* a reply was stored two levels down, and a later request whose
\* transaction raised after its INSERT left no row
C30_Witness ==
  /\ \E row \in DOMAIN replies :
       row.id \notin {1, 2, 3} /\ row.depth = 2 /\ row.parent_reply_id = 2
  /\ resp.op = "reply" /\ resp.fault = "reply_path" /\ resp.status = 500
  /\ resp.parent = 1
  /\ \A row \in DOMAIN replies : row.path # <<>>

\* the rows that match the query of the page the reader just got
MatchedByLastQuery == CountRows(posts, feedMatches(pager'.sort, pager.cursor))

\* C22: in every sort mode a page has at most limit items, hasMore is true
\* exactly when more than limit rows match the query of the page, and the
\* cursor is non-null exactly when hasMore is true.
C22_PageShape ==
  [][pager'.pages # pager.pages =>
       /\ Len(pager'.items) - Len(pager.items) <= pager'.limit
       /\ pager'.hasMore <=> MatchedByLastQuery > pager'.limit
       /\ pager'.cursor # NULL <=> pager'.hasMore
    ]_vars

\* a second page of the controversial feed that is full and the last one,
\* beside posts that do not match the query
C22_Witness ==
  /\ pager.sort = "controversial" /\ pager.pages = 2 /\ ~pager.hasMore
  /\ Len(pager.items) = 2 * pager.limit
  /\ \E p \in DOMAIN posts : p.vote_count < minVotes

\* C23: no page of the rising feed holds a post created before the recency
\* window of windowHours hours, however many votes it has.
C23_RisingWindow ==
  pager.sort = "rising" =>
    \A i \in 1..Len(pager.items) : ~(pager.items[i].created_at < now - windowHours)

\* the rising feed was read to its end and has items, and a post with the
\* most votes, not deleted, is older than the window
C23_Witness ==
  /\ pager.sort = "rising" /\ ~pager.hasMore /\ Len(pager.items) > 0
  /\ \E p \in DOMAIN posts :
       /\ p.deleted_at = NoTime /\ p.created_at < now - windowHours
       /\ \A o \in DOMAIN posts : o.vote_count <= p.vote_count

\* C24: no page of the controversial feed holds a post with fewer than
\* minVotes votes.
C24_ControversialMinVotes ==
  pager.sort = "controversial" =>
    \A i \in 1..Len(pager.items) : ~(pager.items[i].vote_count < minVotes)

\* the controversial feed was read to its end and has items, and a post
\* that is not deleted has fewer votes than the minimum
C24_Witness ==
  /\ pager.sort = "controversial" /\ ~pager.hasMore /\ Len(pager.items) > 0
  /\ \E p \in DOMAIN posts : p.deleted_at = NoTime /\ p.vote_count < minVotes

\* C27: when the reader of the hot feed has the last page over unchanging
\* posts, the pages hold every non-deleted post exactly once.
C27_HotFeedComplete ==
  (FeedDone /\ pager.sort = "hot") =>
    \A p \in DOMAIN posts :
      Cardinality({i \in 1..Len(pager.items) : pager.items[i] = p}) =
        IF p.deleted_at = NoTime THEN posts[p] ELSE 0

\* C21: when the reader of the new feed has the last page, posts having been
\* inserted between its fetches, no post is on the pages twice and every
\* post that was there, not deleted, before the first fetch is on them.
C21_NewFeedStable ==
  (FeedDone /\ pager.sort = "new") =>
    \A p \in DOMAIN posts :
      LET shown == Cardinality({i \in 1..Len(pager.items) : pager.items[i] = p})
      IN /\ shown <= posts[p]
         /\ (p.id = NoId /\ p.deleted_at = NoTime) => shown = posts[p]

\* the post with this id is soft-deleted
Gone(id) == \E p \in DOMAIN posts : p.id = id /\ p.deleted_at # NoTime

\* C28: a soft-deleted post stays deleted; no feed page of any sort mode
\* holds it; and a request that looks it up (GET /posts/:id, a reply to it,
\* a vote on it, deleting it again) is answered 404 and creates no reply and
\* no vote.
C28_DeletedStaysDeleted ==
  [][/\ \A p \in DOMAIN posts : p.deleted_at # NoTime => p \in DOMAIN posts'
     /\ pager'.pages # pager.pages =>
          \A i \in (Len(pager.items) + 1)..Len(pager'.items) :
            pager'.items[i].deleted_at = NoTime /\ ~Gone(pager'.items[i].id)
     /\ \A r \in Slots :
          ( /\ Stepping(r) /\ req[r].pc \in {"post_get", "target", "post_del_find"}
            /\ ~Raises(req[r])
            /\ Gone(req[r].target) )
          => /\ Answered(r, 404)
             /\ UNCHANGED <<posts, replies, votes>>
    ]_vars

\* post 1 was deleted by a request, a feed was read to its end without it,
\* and a reply to it was answered 404
C28_Witness ==
  /\ Gone(1)
  /\ FeedDone /\ Len(pager.items) > 0
  /\ \A i \in 1..Len(pager.items) : pager.items[i].id = 3
  /\ resp.op = "reply" /\ resp.target = 1 /\ resp.status = 404
  /\ replies = EmptyBag

====
